---- MODULE Spec2Model ----
(***************************************************************************)
(* Model of two pieces of sparselizard:                                    *)
(*                                                                         *)
(*  - hierarchicalformfunction::gettypenumber / gettypename, the lookups   *)
(*    between shape function type names and type numbers                   *)
(*    (src/unnamed/part_000);                                              *)
(*  - the Newton loop of examples/nonlinear-laminarflow-step-2d/main.cpp   *)
(*    and the evaluations that follow it.                                  *)
(*                                                                         *)
(* C++ vectors are 0-based, TLA+ sequences 1-based: mytypenames[i] of the  *)
(* code is mytypenames[i+1] here.                                          *)
(***************************************************************************)
EXTENDS Integers, Sequences, FiniteSets

VARIABLES
    mytypenames,   \* hierarchicalformfunction::mytypenames
    call,          \* the last lookup made on the registry: [op, arg]
    ret,           \* how that lookup ended: [state, val, slot]
    pc,            \* position of sparselizard() in main.cpp
    index,         \* int index
    convergence,   \* double convergence
    velocity,      \* double velocity, in thousandths of m/s
    inlet,         \* value of the constraint of v on the inlet region
    measuresol,    \* double measuresol
    v,             \* the field v: [solved, norm, bc]
    formulation,   \* the formulation that solve() is given, and the start of the ramp
    post           \* the evaluations after the loop: [done, field]

regvars == <<mytypenames, call, ret>>
loopvars == <<pc, index, convergence, velocity, inlet, measuresol, v, formulation, post>>
vars == <<mytypenames, call, ret, pc, index, convergence, velocity, inlet,
          measuresol, v, formulation, post>>

----------------------------------------------------------------------------
(* Bounds of the model *)

\* longest catalog
MaxCatalog == 2
\* type numbers asked for are in -MaxIndex .. MaxIndex
MaxIndex == 3
\* the counter index is followed up to MaxIter and stays there afterwards
MaxIter == 27
\* measures of the field are hi * 10^10 + lo quanta, hi in 0..MaxHi, lo in 0..MaxLo
MaxHi == 1
MaxLo == 1
\* a linear formulation has the measure gain * inlet, gain in 1..MaxGain
MaxGain == 3

----------------------------------------------------------------------------
(* The shape function type registry *)

\* names a catalog is made of
TypeNames == {"h1", "hcurl", "one"}

\* names a caller asks for; "h2" is in no catalog
QueryNames == TypeNames \cup {"h2"}

\* the name -1 of no type number, and the value of no name
NoValue == "novalue"

\* what an out-of-bounds read of the vector may hand back besides a name
Garbage == "garbage"

\* no slot of the vector was read
NoSlot == -1

IsUnique(names) ==
    \A i, j \in 1..Len(names) : names[i] = names[j] => i = j

\* the catalogs: names are unique, numbers are 0 .. size-1
Catalogs ==
    {names \in UNION {[1..n -> TypeNames] : n \in 0..MaxCatalog} : IsUnique(names)}

RefCatalog == <<"h1", "hcurl">>

Returned(val, slot) == [state |-> "returned", val |-> val, slot |-> slot]

Aborted(msg) == [state |-> "aborted", val |-> msg, slot |-> NoSlot]

NoCall == [state |-> "none", val |-> NoValue, slot |-> NoSlot]

\* the for loop of gettypenumber from i on: the first i with
\* mytypenames[i] == fftypename, -1 if there is none
RECURSIVE ScanFrom(_, _, _)
ScanFrom(names, fftypename, i) ==
    IF ~(i < Len(names)) THEN -1
    ELSE IF names[i + 1] = fftypename THEN i
    ELSE ScanFrom(names, fftypename, i + 1)

\* faulty variant: the scan starts at 1
gettypenumberFromOne(names, fftypename) ==
    LET outtypenum == ScanFrom(names, fftypename, 1)
    IN  IF outtypenum = -1 THEN Aborted("unknown type name")
        ELSE Returned(outtypenum, NoSlot)

\* faulty variant: no check of outtypenum
gettypenumberUnchecked(names, fftypename) ==
    Returned(ScanFrom(names, fftypename, 0), NoSlot)

gettypenumber(names, fftypename) ==
    LET outtypenum == ScanFrom(names, fftypename, 0)
    IN  IF outtypenum = -1 THEN Aborted("unknown type name")
        ELSE Returned(outtypenum, NoSlot)

\* int to size_t: the value is wraps * 2^64 + off
ToSizeT(i) == IF i < 0 THEN [wraps |-> 1, off |-> i] ELSE [wraps |-> 0, off |-> i]

\* faulty variant: the comparison is made on int
GeSizeSigned(fftypenumber, size) == fftypenumber >= size

\* fftypenumber >= mytypenames.size(): the int is converted to size_t, and
\* 2^64 + off is above every size for off in -2^31 .. -1
GeSize(fftypenumber, size) ==
    LET u == ToSizeT(fftypenumber)
    IN  u.wraps > 0 \/ u.off >= size

\* mytypenames[fftypenumber]: the entry, or whatever an out-of-bounds read gives
ReadSlot(names, fftypenumber) ==
    IF fftypenumber \in 0..(Len(names) - 1)
    THEN {Returned(names[fftypenumber + 1], fftypenumber)}
    ELSE {Returned(val, fftypenumber) : val \in TypeNames \cup {Garbage}}
         \cup {[state |-> "aborted", val |-> "segfault", slot |-> fftypenumber]}

\* faulty variant: the entries are counted from 1
gettypenameFromOne(names, fftypenumber) ==
    IF GeSize(fftypenumber, Len(names) + 1) THEN {Aborted("unknown type number")}
    ELSE ReadSlot(names, fftypenumber - 1)

\* the ways gettypename may end
gettypename(names, fftypenumber) ==
    IF GeSize(fftypenumber, Len(names)) THEN {Aborted("unknown type number")}
    ELSE ReadSlot(names, fftypenumber)

RegInit ==
    /\ mytypenames \in Catalogs
    /\ call = [op |-> "none", arg |-> NoValue]
    /\ ret = NoCall

\* a caller asks for the number of a name; abort() ends the process
CallGetTypeNumber ==
    /\ ret.state # "aborted"
    /\ \E fftypename \in QueryNames :
        /\ call' = [op |-> "gettypenumber", arg |-> fftypename]
        /\ ret' = gettypenumber(mytypenames, fftypename)
    /\ UNCHANGED mytypenames
    /\ UNCHANGED loopvars

\* a caller asks for the name of a number
CallGetTypeName ==
    /\ ret.state # "aborted"
    /\ \E fftypenumber \in (-MaxIndex)..MaxIndex :
        /\ call' = [op |-> "gettypename", arg |-> fftypenumber]
        /\ ret' \in gettypename(mytypenames, fftypenumber)
    /\ UNCHANGED mytypenames
    /\ UNCHANGED loopvars

RegNext == CallGetTypeNumber \/ CallGetTypeName

----------------------------------------------------------------------------
(* The Newton loop of the laminar flow example *)

\* velocity = 0.1, in thousandths
InitVelocity == 100
\* velocity < 0.299
RampThreshold == 299
\* velocity + 0.008
RampIncrement == 8

\* the value at which the ramp stops: the first one not below the threshold
TargetVelocity ==
    CHOOSE t \in {InitVelocity + k * RampIncrement : k \in 0..100} :
        t >= RampThreshold /\ t - RampIncrement < RampThreshold

\* the inlet has no constraint before the loop
NoConstraint == -1

(* A measure norm(v).integrate(fluid,2) is hi * 10^10 + lo quanta, so that   *)
(* the tolerance 1e-10 is one unit of lo against one unit of hi.  A          *)
(* difference of measures keeps the two parts apart, lo may be negative.     *)
Measures == [hi : 0..MaxHi, lo : 0..MaxLo]

Zero == [hi |-> 0, lo |-> 0]

One == [hi |-> 1, lo |-> 0]

PositiveMeasures == Measures \ {Zero}

\* std::abs(a - b)
AbsDiff(a, b) ==
    IF a.hi > b.hi \/ (a.hi = b.hi /\ a.lo >= b.lo)
    THEN [hi |-> a.hi - b.hi, lo |-> a.lo - b.lo]
    ELSE [hi |-> b.hi - a.hi, lo |-> b.lo - a.lo]

\* std::abs((after - before)/after) in double: 0/0 is NaN, x/0 is infinite
RelChange(after, before) ==
    IF after = Zero
    THEN IF before = Zero THEN [kind |-> "nan", n |-> Zero, d |-> Zero]
         ELSE [kind |-> "inf", n |-> before, d |-> Zero]
    ELSE [kind |-> "fin", n |-> AbsDiff(after, before), d |-> after]

\* c > 1e-10: n * 10^10 > d; false of NaN
GreaterThanTol(c) ==
    \/ c.kind = "inf"
    \/ c.kind = "fin" /\ (c.n.hi > 0 \/ c.n.lo > c.d.hi)

\* c <= 1e-10
AtMostTol(c) == c.kind = "fin" /\ ~GreaterThanTol(c)

\* faulty variant: the loop gives up after three iterations
LoopConditionCapped(c, i) == GreaterThanTol(c) /\ i < 3

\* while (convergence > 1e-10)
LoopCondition(c, i) == GreaterThanTol(c)

\* faulty variant: no test of the threshold
RampStepUnguarded(vel) == vel + RampIncrement

\* faulty variant: the test lets the target itself through
RampStepLate(vel) ==
    IF vel <= TargetVelocity THEN vel + RampIncrement ELSE vel

\* if (velocity < 0.299) velocity = velocity + 0.008;
RampStep(vel) ==
    IF vel < RampThreshold THEN vel + RampIncrement ELSE vel

\* norm(v).integrate(fluid,2)
NormIntegral(field) == field.norm

UnsetField == [solved |-> FALSE, norm |-> Zero, bc |-> NoConstraint]

\* solve(laminarflow): the fields it may leave in v.  The constrained inlet
\* values are part of the field, so its norm is positive when they are.
\* A linear formulation has one solution for an inlet value.
SolveOutcomes(form, field, inletvalue) ==
    IF form.linear
    THEN {[solved |-> TRUE, norm |-> [hi |-> form.gain * inletvalue, lo |-> 0],
           bc |-> inletvalue]}
    ELSE {[solved |-> TRUE, norm |-> m, bc |-> inletvalue] :
             m \in IF inletvalue > 0 THEN PositiveMeasures ELSE Measures}

LoopInitWith(form) ==
    /\ formulation = form
    /\ pc = "while"
    /\ index = 0
    /\ convergence = [kind |-> "fin", n |-> One, d |-> One]
    /\ velocity = form.start
    /\ inlet = NoConstraint
    /\ measuresol = Zero
    /\ v = UnsetField
    /\ post = [done |-> FALSE, field |-> UnsetField]

\* the example: predefinedlaminarflow, velocity = 0.1
LaminarFlow == [linear |-> FALSE, gain |-> 0, start |-> InitVelocity]

\* linear formulations, ramped from 0.1 or started at the target
LinearFormulations ==
    [linear : {TRUE}, gain : 1..MaxGain, start : {InitVelocity, TargetVelocity}]

RegIdle ==
    /\ mytypenames = RefCatalog
    /\ call = [op |-> "none", arg |-> NoValue]
    /\ ret = NoCall

LoopInit == RegIdle /\ LoopInitWith(LaminarFlow)

LinInit == RegIdle /\ \E form \in LinearFormulations : LoopInitWith(form)

Init == LoopInit

\* the test of the while loop
WhileTest ==
    /\ pc = "while"
    /\ pc' = IF LoopCondition(convergence, index) THEN "ramp" ELSE "post"
    /\ UNCHANGED <<index, convergence, velocity, inlet, measuresol, v, formulation, post>>
    /\ UNCHANGED regvars

Ramp ==
    /\ pc = "ramp"
    /\ velocity' = RampStep(velocity)
    /\ pc' = "setconstraint"
    /\ UNCHANGED <<index, convergence, inlet, measuresol, v, formulation, post>>
    /\ UNCHANGED regvars

\* faulty variant: the constraint is not set again
SetConstraintOnce ==
    /\ pc = "setconstraint"
    /\ inlet' = IF inlet = NoConstraint THEN velocity ELSE inlet
    /\ pc' = "measure"
    /\ UNCHANGED <<index, convergence, velocity, measuresol, v, formulation, post>>
    /\ UNCHANGED regvars

\* v.setconstraint(inlet, array2x1(velocity*y*(hthin-y)/pow(hthin*0.5,2), 0))
SetConstraint ==
    /\ pc = "setconstraint"
    /\ inlet' = velocity
    /\ pc' = "measure"
    /\ UNCHANGED <<index, convergence, velocity, measuresol, v, formulation, post>>
    /\ UNCHANGED regvars

\* double measuresol = norm(v).integrate(fluid,2)
MeasureBefore ==
    /\ pc = "measure"
    /\ measuresol' = NormIntegral(v)
    /\ pc' = "solve"
    /\ UNCHANGED <<index, convergence, velocity, inlet, v, formulation, post>>
    /\ UNCHANGED regvars

Solve ==
    /\ pc = "solve"
    /\ v' \in SolveOutcomes(formulation, v, inlet)
    /\ pc' = "check"
    /\ UNCHANGED <<index, convergence, velocity, inlet, measuresol, formulation, post>>
    /\ UNCHANGED regvars

\* convergence = std::abs((norm(v).integrate(fluid,2) - measuresol)/norm(v).integrate(fluid,2))
Check ==
    /\ pc = "check"
    /\ convergence' = RelChange(NormIntegral(v), measuresol)
    /\ pc' = "write"
    /\ UNCHANGED <<index, velocity, inlet, measuresol, v, formulation, post>>
    /\ UNCHANGED regvars

\* p.write, v.write, index++; index is followed up to MaxIter
WriteAndCount ==
    /\ pc = "write"
    /\ index' = IF index < MaxIter THEN index + 1 ELSE index
    /\ pc' = "while"
    /\ UNCHANGED <<convergence, velocity, inlet, measuresol, v, formulation, post>>
    /\ UNCHANGED regvars

\* vnorm, flowratein, flowrateout and the validation line
PostProcess ==
    /\ pc = "post"
    /\ post' = [done |-> TRUE, field |-> v]
    /\ pc' = "done"
    /\ UNCHANGED <<index, convergence, velocity, inlet, measuresol, v, formulation>>
    /\ UNCHANGED regvars

Next ==
    \/ WhileTest
    \/ Ramp
    \/ SetConstraint
    \/ MeasureBefore
    \/ Solve
    \/ Check
    \/ WriteAndCount
    \/ PostProcess

\* the example
Spec == Init /\ [][Next]_vars

\* the example, which runs on as long as a statement is left to run
FairSpec == Init /\ [][Next]_vars /\ WF_vars(Next)

\* the loop on linear formulations
LinSpec == LinInit /\ [][Next]_vars

\* the registry and its callers
RegStart == RegInit /\ LoopInitWith(LaminarFlow)

RegSpec == RegStart /\ [][RegNext]_vars

----------------------------------------------------------------------------
(* Properties of the registry, under RegSpec *)

InCatalog(name) == \E k \in 1..Len(mytypenames) : mytypenames[k] = name

ValidNumbers == 0..(Len(mytypenames) - 1)

\* C1: the name that gettypename returned for a number i of the catalog,
\* 0 <= i < size, is given the number i by gettypenumber
C1_NumberNameNumber ==
    (call.op = "gettypename" /\ call.arg \in ValidNumbers) =>
        /\ ret.state = "returned"
        /\ LET back == gettypenumber(mytypenames, ret.val)
           IN  back.state = "returned" /\ back.val = call.arg

C1_Witness ==
    /\ call.op = "gettypename"
    /\ call.arg = 1
    /\ Len(mytypenames) = 2
    /\ ret.state = "returned"

\* C2: the number that gettypenumber returned for a name of the catalog is
\* given that name by gettypename, and neither call aborts
C2_NameNumberName ==
    (call.op = "gettypenumber" /\ InCatalog(call.arg)) =>
        /\ ret.state = "returned"
        /\ gettypename(mytypenames, ret.val) = {Returned(call.arg, ret.val)}

C2_Witness ==
    /\ call.op = "gettypenumber"
    /\ Len(mytypenames) = 2
    /\ call.arg = mytypenames[2]
    /\ ret.state = "returned"

\* C3: gettypenumber of a name that is not in the catalog, the empty catalog
\* included, aborts with the unknown type name error and returns nothing,
\* and nothing is called after the abort
C3_UnknownNameAborts ==
    /\ (call.op = "gettypenumber" /\ ~InCatalog(call.arg)) =>
           (ret.state = "aborted" /\ ret.val = "unknown type name")
    /\ (call.op = "gettypenumber" /\ ret.state = "returned") =>
           (ret.val \in ValidNumbers /\ mytypenames[ret.val + 1] = call.arg)

C3_Witness ==
    /\ call.op = "gettypenumber"
    /\ mytypenames = <<>>
    /\ ret.state = "aborted"

\* C4: gettypename of a number outside 0 .. size-1, negative ones included,
\* aborts with the unknown type number error without reading a slot; of a
\* number inside, it returns the entry of that number
C4_NumberRange ==
    call.op = "gettypename" =>
        IF call.arg \in ValidNumbers
        THEN ret = Returned(mytypenames[call.arg + 1], call.arg)
        ELSE ret = Aborted("unknown type number")

C4_Witness ==
    /\ call.op = "gettypename"
    /\ call.arg < 0
    /\ Len(mytypenames) > 0
    /\ ret.state = "aborted"

----------------------------------------------------------------------------
(* Properties of the loop *)

Exited == pc \in {"post", "done"}

C6_OnePass ==
    (formulation.linear /\ formulation.start = TargetVelocity /\ Exited) =>
        index = 1

\* C6, amended: a linear formulation started at the target leaves the loop
\* after two passes, not after one, and the ramp is never stepped
C6_TwoPasses ==
    (formulation.linear /\ formulation.start = TargetVelocity) =>
        /\ velocity = formulation.start
        /\ Exited => index = 2
        /\ (pc = "while" /\ index = 1) => GreaterThanTol(convergence)
        /\ (pc = "while" /\ index = 2) => convergence = RelChange(v.norm, v.norm)

C6_Witness ==
    /\ formulation.linear
    /\ formulation.start = TargetVelocity
    /\ pc = "done"
    /\ index = 2

RampSteps == (TargetVelocity - InitVelocity) \div RampIncrement

\* number of times the ramp statement was run
RampCount ==
    index + (IF pc \in {"setconstraint", "measure", "solve", "check", "write"} THEN 1 ELSE 0)

\* C8: the ramp starts at 100, is stepped by 8 below 299 and left alone from
\* there on, so it never decreases, never passes 300, is 300 from the 25th
\* iteration on
C8_RampInv ==
    /\ velocity \in InitVelocity..TargetVelocity
    /\ TargetVelocity = 300
    /\ RampSteps = 25
    /\ velocity = IF RampCount < RampSteps
                  THEN InitVelocity + RampIncrement * RampCount
                  ELSE TargetVelocity

C8_RampAct ==
    /\ velocity' = velocity \/ velocity' = velocity + RampIncrement
    /\ velocity >= RampThreshold => velocity' = velocity
    /\ (pc = "ramp" /\ pc' # "ramp") =>
           velocity' = IF velocity < RampThreshold THEN velocity + RampIncrement
                       ELSE velocity
    /\ (pc # "ramp" \/ pc' = "ramp") => velocity' = velocity

Positions ==
    {"while", "ramp", "setconstraint", "measure", "solve", "check", "write", "post", "done"}

\* C9: the loop has no diverged state and no cap: it is left exactly when
\* the last relative change is at most the tolerance, whatever index is, and
\* the program stops only at its end
C9_ExitAct ==
    (pc = "while" /\ pc' # "while") =>
        /\ pc' = "post" <=> AtMostTol(convergence)
        /\ pc' = "ramp" <=> GreaterThanTol(convergence)

C9_OnlyConverged ==
    /\ [](pc \in Positions /\ (pc # "done" => ENABLED Next))
    /\ [](Exited => AtMostTol(convergence))
    /\ [][C9_ExitAct]_vars

C9_Witness ==
    /\ pc = "post"
    /\ index > 3
    /\ AtMostTol(convergence)
    /\ convergence.n # Zero

\* the order of the statements
Order ==
    {<<"while", "ramp">>, <<"while", "post">>, <<"ramp", "setconstraint">>,
     <<"setconstraint", "measure">>, <<"measure", "solve">>, <<"solve", "check">>,
     <<"check", "write">>, <<"write", "while">>, <<"post", "done">>}

\* C10: an iteration runs ramp, constraint, measure, one solve, check in
\* that order; the solve uses the constraint of the current ramp value, the
\* measure before it is that of the field it overwrites, and the evaluations
\* after the loop see a solved field and a relative change within tolerance
C10_Inv ==
    /\ pc \in {"measure", "solve", "check", "write"} => inlet = velocity
    /\ pc = "solve" => measuresol = NormIntegral(v)
    /\ pc \in {"check", "write"} => (v.solved /\ v.bc = velocity)
    /\ pc = "write" => convergence = RelChange(NormIntegral(v), measuresol)
    /\ post.done <=> pc = "done"
    /\ post.done =>
           /\ post.field = v
           /\ v.solved
           /\ index >= 1
           /\ AtMostTol(convergence)

C10_Act ==
    /\ pc' # pc => <<pc, pc'>> \in Order
    /\ v' # v => (pc = "solve" /\ pc' = "check")
    /\ inlet' # inlet => (pc = "setconstraint" /\ pc' = "measure")
    /\ measuresol' # measuresol => (pc = "measure" /\ pc' = "solve")
    /\ index' # index => (pc = "write" /\ pc' = "while")

C10_Sequential == [](C10_Inv) /\ [][C10_Act]_vars

C10_Witness ==
    /\ pc = "done"
    /\ index >= 2
    /\ post.done

====
